---- MODULE Spec2Model ----
(***************************************************************************)
(* Model of the icon catalog scripts: the manifest generator               *)
(* (generateManifest with slugify, parseFileDetails, readJsonFile) and the *)
(* batched R2 uploader (collectSvgFiles, uploadFile, uploadBatch, main),   *)
(* and of the gallery's insertion handler (App, onInsertIcon).             *)
(*                                                                         *)
(* Strings are sequences of characters.  An ASCII character is the         *)
(* one-letter string that spells it; a non-ASCII character is a string     *)
(* that names it ("E_ACUTE" is U+00C9, "COMB_ACUTE" is U+0301, ...).       *)
(***************************************************************************)
EXTENDS Integers, Sequences, FiniteSets, TLC

VARIABLES
    \* slugify applied once and twice to an input label
    slugPc, slugIn, slugOnce, slugTwice,
    \* parseFileDetails applied to an input file name
    parsePc, fileName, details,
    \* generateManifest: its position, the configured base URL, the root
    \* listing, the loop index, the catalog built so far, the serialized
    \* manifest being written, the output file, the process exit code, the
    \* summary line, and a record of what the walk met
    pc, cdnBase, entries, idx, icons, buffer, outputFile, exitCode, logged,
    qualifying, visit, failure,
    \* the asset tree when it is fixed for a run and its rerun (None: the file
    \* system answers freely), and what the first of the two runs produced
    fixedTree, firstRun,
    \* the batched uploader's main: its position, the key prefix of its
    \* configuration, the discovered files, the batches, the index of the
    \* batch in flight, the uploads of that batch, the running totals, the
    \* progress lines, the final summary, the exit code and the cause of a
    \* failure
    upc, keyPrefix, files, batches, batchIdx, inFlight, totalSuccess,
    totalFailed, progress, summary, uploadExit, uploadFailure,
    \* the gallery: whether the host supports insertion, the component's
    \* activeIconId state, every call of onInsertIcon so far with the card
    \* it was made for and its position, and the elements added to the design
    isUploadSupported, activeIconId, insertions, design

pureVars == <<slugPc, slugIn, slugOnce, slugTwice, parsePc, fileName, details>>

manifestVars ==
    <<pc, cdnBase, entries, idx, icons, buffer, outputFile, exitCode, logged,
      qualifying, visit, failure, fixedTree, firstRun>>

uploadVars ==
    <<upc, keyPrefix, files, batches, batchIdx, inFlight, totalSuccess,
      totalFailed, progress, summary, uploadExit, uploadFailure>>

\* What a run of generateManifest never changes: the tree it is given and
\* the record of an earlier run.
rerunVars == <<fixedTree, firstRun>>

galleryVars == <<isUploadSupported, activeIconId, insertions, design>>

vars == <<pureVars, manifestVars, uploadVars, galleryVars>>

parseVars == <<parsePc, fileName, details>>

slugVars == <<slugPc, slugIn, slugOnce, slugTwice>>

\* The variables an action of one program leaves alone: those of the others.
notSlug == <<parseVars, manifestVars, uploadVars, galleryVars>>

notParse == <<slugVars, manifestVars, uploadVars, galleryVars>>

notManifest == <<pureVars, uploadVars, galleryVars>>

notUpload == <<pureVars, manifestVars, galleryVars>>

notGallery == <<pureVars, manifestVars, uploadVars>>

\* An optional value (JavaScript's undefined or null against a value): None
\* when absent, Some(v) when present.
None == <<>>

Some(v) == <<v>>

Get(m) == m[1]

(***************************************************************************)
(* Characters                                                              *)
(***************************************************************************)
LowerAlpha ==
    << "a", "b", "c", "d", "e", "f", "g", "h", "i", "j", "k", "l", "m",
       "n", "o", "p", "q", "r", "s", "t", "u", "v", "w", "x", "y", "z" >>

UpperAlpha ==
    << "A", "B", "C", "D", "E", "F", "G", "H", "I", "J", "K", "L", "M",
       "N", "O", "P", "Q", "R", "S", "T", "U", "V", "W", "X", "Y", "Z" >>

DigitChars == {"0", "1", "2", "3", "4", "5", "6", "7", "8", "9"}

Range(s) == {s[i] : i \in 1..Len(s)}

IsLowerAscii(c) == c \in Range(LowerAlpha)

IsUpperAscii(c) == c \in Range(UpperAlpha)

IndexIn(alpha, c) == CHOOSE i \in 1..Len(alpha) : alpha[i] = c

\* All sequences over S of length at most n.
SeqUpTo(S, n) == UNION {[1..k -> S] : k \in 0..n}

RECURSIVE Flatten(_)
Flatten(ss) == IF ss = <<>> THEN <<>> ELSE Head(ss) \o Flatten(Tail(ss))

\* String.prototype.toLowerCase on one character (Unicode default case
\* conversion): U+0130 lowercases to the two characters "i" U+0307.
ToLowerChar(c) ==
    IF IsUpperAscii(c) THEN <<LowerAlpha[IndexIn(UpperAlpha, c)]>>
    ELSE IF c = "E_ACUTE" THEN <<"e_acute">>
    ELSE IF c = "I_DOT" THEN <<"i", "COMB_DOT">>
    ELSE <<c>>

ToLowerCase(s) == Flatten([i \in 1..Len(s) |-> ToLowerChar(s[i])])

\* String.prototype.normalize("NFD") on one character: a precomposed letter
\* becomes its base letter followed by the combining mark.
NFDChar(c) ==
    IF c = "e_acute" THEN <<"e", "COMB_ACUTE">>
    ELSE IF c = "E_ACUTE" THEN <<"E", "COMB_ACUTE">>
    ELSE IF c = "I_DOT" THEN <<"I", "COMB_DOT">>
    ELSE <<c>>

NormalizeNFD(s) == Flatten([i \in 1..Len(s) |-> NFDChar(s[i])])

\* The character class [\u0300-\u036f]: U+0301 and U+0307 are in it.
IsCombiningMark(c) == c \in {"COMB_ACUTE", "COMB_DOT"}

StripCombiningMarks(s) == SelectSeq(s, LAMBDA c : ~IsCombiningMark(c))

\* The character class [a-z0-9].
IsSlugAlnum(c) == IsLowerAscii(c) \/ c \in DigitChars

\* A plausible slip: /[^a-z0-9]/g without the "+", one hyphen per character.
RECURSIVE ReplaceNonAlnumEach(_)
ReplaceNonAlnumEach(s) ==
    IF s = <<>> THEN <<>>
    ELSE IF IsSlugAlnum(Head(s)) THEN <<Head(s)>> \o ReplaceNonAlnumEach(Tail(s))
    ELSE <<"-">> \o ReplaceNonAlnumEach(Tail(s))

\* .replace(/[^a-z0-9]+/g, "-"): scanning left to right, every maximal run of
\* characters outside [a-z0-9] becomes one hyphen.
RECURSIVE ReplaceNonAlnumRuns(_)
ReplaceNonAlnumRuns(s) ==
    IF s = <<>> THEN <<>>
    ELSE IF IsSlugAlnum(Head(s)) THEN <<Head(s)>> \o ReplaceNonAlnumRuns(Tail(s))
    ELSE IF Len(s) >= 2 /\ ~IsSlugAlnum(s[2]) THEN ReplaceNonAlnumRuns(Tail(s))
    ELSE <<"-">> \o ReplaceNonAlnumRuns(Tail(s))

RECURSIVE DropLeadingHyphens(_)
DropLeadingHyphens(s) ==
    IF s # <<>> /\ Head(s) = "-" THEN DropLeadingHyphens(Tail(s)) ELSE s

RECURSIVE DropTrailingHyphens(_)
DropTrailingHyphens(s) ==
    IF s # <<>> /\ s[Len(s)] = "-"
    THEN DropTrailingHyphens(SubSeq(s, 1, Len(s) - 1))
    ELSE s

\* .replace(/^-+|-+$/g, "")
TrimHyphens(s) == DropTrailingHyphens(DropLeadingHyphens(s))

\* A plausible slip: the hyphens trimmed before the runs are replaced.
slugifyTrimFirst(value) ==
    ReplaceNonAlnumRuns(
        TrimHyphens(StripCombiningMarks(NormalizeNFD(ToLowerCase(value)))))

slugify(value) ==
    TrimHyphens(
        ReplaceNonAlnumRuns(
            StripCombiningMarks(NormalizeNFD(ToLowerCase(value)))))

(***************************************************************************)
(* slugify on bounded inputs                                               *)
(***************************************************************************)
MaxSlugLen == 4

\* Lowercase and uppercase letters, a digit, the hyphen, other punctuation,
\* precomposed accented letters, bare combining marks, and a letter with no
\* decomposition (U+00DF).
SlugAlphabet ==
    {"a", "Z", "7", "-", " ", "_", "E_ACUTE", "e_acute", "COMB_ACUTE",
     "I_DOT", "SHARP_S"}

SlugInit ==
    /\ slugPc = "input"
    /\ slugIn \in SeqUpTo(SlugAlphabet, MaxSlugLen)
    /\ slugOnce = <<>>
    /\ slugTwice = <<>>

SlugIdle ==
    /\ slugPc = "idle"
    /\ slugIn = <<>>
    /\ slugOnce = <<>>
    /\ slugTwice = <<>>

SlugifyOnce ==
    /\ slugPc = "input"
    /\ slugOnce' = slugify(slugIn)
    /\ slugPc' = "once"
    /\ UNCHANGED <<slugIn, slugTwice, notSlug>>

SlugifyTwice ==
    /\ slugPc = "once"
    /\ slugTwice' = slugify(slugOnce)
    /\ slugPc' = "twice"
    /\ UNCHANGED <<slugIn, slugOnce, notSlug>>

(***************************************************************************)
(* parseFileDetails                                                        *)
(***************************************************************************)
\* Canonicalize of a regular expression with the i flag and without the u
\* flag: a character is compared by its upper case; a non-ASCII character is
\* never folded onto an ASCII one.
Canonicalize(c) ==
    IF IsLowerAscii(c) THEN UpperAlpha[IndexIn(LowerAlpha, c)] ELSE c

\* The literal lit matches s at position i, ignoring case.
MatchesAtCI(s, i, lit) ==
    /\ i >= 1
    /\ i + Len(lit) - 1 <= Len(s)
    /\ \A k \in 1..Len(lit) : Canonicalize(s[i + k - 1]) = Canonicalize(lit[k])

SvgSuffix == <<".", "s", "v", "g">>

\* fileName.replace(/\.svg$/i, ""): the one place the pattern can match is
\* the last four characters.
StripSvgSuffix(s) ==
    IF MatchesAtCI(s, Len(s) - 3, SvgSuffix)
    THEN SubSeq(s, 1, Len(s) - 4)
    ELSE s

\* The alternatives of /_(regular|filled|light|bold|outline)$/i, in order.
StyleAlternatives ==
    << <<"r", "e", "g", "u", "l", "a", "r">>,
       <<"f", "i", "l", "l", "e", "d">>,
       <<"l", "i", "g", "h", "t">>,
       <<"b", "o", "l", "d">>,
       <<"o", "u", "t", "l", "i", "n", "e">> >>

\* The pattern /_(regular|filled|light|bold|outline)$/i matches s starting at
\* position i: an underscore, one alternative, then the end of the string.
StyleMatchesAt(s, i) ==
    /\ i \in 1..Len(s)
    /\ s[i] = "_"
    /\ \E a \in 1..Len(StyleAlternatives) :
          /\ MatchesAtCI(s, i + 1, StyleAlternatives[a])
          /\ i + Len(StyleAlternatives[a]) = Len(s)

Min(S) == CHOOSE x \in S : \A y \in S : x <= y

\* withoutExtension.match(/_(regular|...|outline)$/i): the capture group of
\* the leftmost match, or None (null) when there is none.
StyleMatch(s) ==
    LET starts == {i \in 1..Len(s) : StyleMatchesAt(s, i)}
    IN  IF starts = {} THEN None
        ELSE Some(SubSeq(s, Min(starts) + 1, Len(s)))

\* The greatest j such that s[i..j] are all digits (i - 1 when s[i] is none).
RECURSIVE DigitRunEnd(_, _)
DigitRunEnd(s, i) ==
    IF i <= Len(s) /\ s[i] \in DigitChars THEN DigitRunEnd(s, i + 1) ELSE i - 1

\* The pattern /_(\d+)_/ matches s starting at position i: an underscore, the
\* longest run of one or more digits, an underscore.
SizeMatchesAt(s, i) ==
    /\ i \in 1..Len(s)
    /\ s[i] = "_"
    /\ DigitRunEnd(s, i + 1) >= i + 1
    /\ DigitRunEnd(s, i + 1) + 1 <= Len(s)
    /\ s[DigitRunEnd(s, i + 1) + 1] = "_"

\* withoutExtension.match(/_(\d+)_/): the capture group of the leftmost match.
SizeMatch(s) ==
    LET starts == {i \in 1..Len(s) : SizeMatchesAt(s, i)}
    IN  IF starts = {} THEN None
        ELSE Some(SubSeq(s, Min(starts) + 1, DigitRunEnd(s, Min(starts) + 1)))

DigitValue(c) ==
    CASE c = "0" -> 0 [] c = "1" -> 1 [] c = "2" -> 2 [] c = "3" -> 3
      [] c = "4" -> 4 [] c = "5" -> 5 [] c = "6" -> 6 [] c = "7" -> 7
      [] c = "8" -> 8 [] c = "9" -> 9

\* Number(digits) for a string of decimal digits.
RECURSIVE NumberOf(_)
NumberOf(ds) ==
    IF ds = <<>> THEN 0
    ELSE 10 * NumberOf(SubSeq(ds, 1, Len(ds) - 1)) + DigitValue(ds[Len(ds)])

\* A plausible slip: the captured style returned as matched, not lowercased.
StyleOfKeepCase(s) == StyleMatch(s)

\* styleMatch?.[1]?.toLowerCase()
StyleOf(s) ==
    IF StyleMatch(s) = None THEN None ELSE Some(ToLowerCase(Get(StyleMatch(s))))

\* sizeMatch?.[1] ? Number(sizeMatch[1]) : undefined
SizeOf(s) ==
    IF SizeMatch(s) = None THEN None ELSE Some(NumberOf(Get(SizeMatch(s))))

parseFileDetails(name) ==
    LET withoutExtension == StripSvgSuffix(name)
    IN  [ size |-> SizeOf(withoutExtension),
          style |-> StyleOf(withoutExtension),
          baseName |-> withoutExtension ]

(***************************************************************************)
(* parseFileDetails on bounded inputs                                      *)
(***************************************************************************)
MaxAtoms == 4

\* File names are built from these pieces: a separator, a letter, a digit, the
\* five style words in several letter cases, a word that only ends in a
\* style word, and the image suffix in two letter cases.
NameAtoms ==
    { <<"_">>, <<"x">>, <<"2">>,
      <<"r", "e", "g", "u", "l", "a", "r">>,
      <<"f", "i", "l", "l", "e", "d">>,
      <<"L", "i", "g", "h", "t">>,
      <<"B", "O", "L", "D">>,
      <<"o", "u", "t", "l", "i", "n", "e">>,
      <<"s", "e", "m", "i", "b", "o", "l", "d">>,
      <<".", "s", "v", "g">>,
      <<".", "S", "V", "G">> }

NoDetails == [size |-> None, style |-> None, baseName |-> <<>>]

ParseInit ==
    /\ parsePc = "input"
    /\ fileName \in {Flatten(atoms) : atoms \in SeqUpTo(NameAtoms, MaxAtoms)}
    /\ details = NoDetails

ParseIdle ==
    /\ parsePc = "idle"
    /\ fileName = <<>>
    /\ details = NoDetails

ParseFileDetails ==
    /\ parsePc = "input"
    /\ details' = parseFileDetails(fileName)
    /\ parsePc' = "done"
    /\ UNCHANGED <<fileName, notParse>>

(***************************************************************************)
(* File names as the specification describes them                          *)
(***************************************************************************)
\* The lowercase words of the closed style set.
StyleWords == Range(StyleAlternatives)

\* t spells the lowercase word w in some letter case.
IsCaseVariantOf(t, w) ==
    /\ Len(t) = Len(w)
    /\ \A k \in 1..Len(w) :
          \/ t[k] = w[k]
          \/ IsLowerAscii(w[k]) /\ t[k] = UpperAlpha[IndexIn(LowerAlpha, w[k])]

\* The name ends with the image suffix, ".svg" in any letter case.
HasImageSuffix(name) ==
    /\ Len(name) >= 4
    /\ IsCaseVariantOf(SubSeq(name, Len(name) - 3, Len(name)), SvgSuffix)

\* The file name without its image suffix.
StemOf(name) ==
    IF HasImageSuffix(name) THEN SubSeq(name, 1, Len(name) - 4) ELSE name

\* The stem ends with an underscore followed by the word w in some case.
EndsWithStyleToken(stem, w) ==
    /\ Len(stem) >= Len(w) + 1
    /\ stem[Len(stem) - Len(w)] = "_"
    /\ IsCaseVariantOf(SubSeq(stem, Len(stem) - Len(w) + 1, Len(stem)), w)

(***************************************************************************)
(* generateManifest                                                        *)
(***************************************************************************)
\* path.join on POSIX: the segments joined by "/".
RECURSIVE PathJoin(_)
PathJoin(segs) ==
    IF segs = <<>> THEN <<>>
    ELSE IF Len(segs) = 1 THEN Head(segs)
    ELSE Head(segs) \o <<"/">> \o PathJoin(Tail(segs))

\* The characters encodeURIComponent leaves alone besides letters and digits.
UnreservedMarks == {"-", "_", ".", "!", "~", "*", "'", "(", ")"}

\* encodeURIComponent on one character: the percent-encoded UTF-8 bytes of
\* every character that is not unreserved.
EncodeChar(c) ==
    IF IsLowerAscii(c) \/ IsUpperAscii(c) \/ c \in DigitChars \/ c \in UnreservedMarks
    THEN <<c>>
    ELSE CASE c = " " -> <<"%", "2", "0">>
           [] c = "/" -> <<"%", "2", "F">>
           [] c = "%" -> <<"%", "2", "5">>
           [] c = "E_ACUTE" -> <<"%", "C", "3", "%", "8", "9">>
           [] c = "e_acute" -> <<"%", "C", "3", "%", "A", "9">>
           [] c = "SHARP_S" -> <<"%", "C", "3", "%", "9", "F">>
           [] c = "I_DOT" -> <<"%", "C", "4", "%", "B", "0">>
           [] c = "COMB_ACUTE" -> <<"%", "C", "C", "%", "8", "1">>
           [] c = "COMB_DOT" -> <<"%", "C", "C", "%", "8", "7">>

EncodeURIComponent(s) == Flatten([i \in 1..Len(s) |-> EncodeChar(s[i])])

\* .replace(/\/+$/, "")
RECURSIVE StripTrailingSlashes(_)
StripTrailingSlashes(s) ==
    IF s # <<>> /\ s[Len(s)] = "/"
    THEN StripTrailingSlashes(SubSeq(s, 1, Len(s) - 1))
    ELSE s

\* ICON_CDN_BASE_URL for a value of the environment variable (None: unset).
\* An unset or empty variable is falsy and gives undefined.
CdnBaseOf(env) ==
    IF env = None \/ Get(env) = <<>> THEN None
    ELSE Some(StripTrailingSlashes(Get(env)))

\* A plausible slip: the file name tested without .toLowerCase().
IsSvgFileExactCase(name) ==
    /\ Len(name) >= Len(SvgSuffix)
    /\ SubSeq(name, Len(name) - Len(SvgSuffix) + 1, Len(name)) = SvgSuffix

\* svgFile.toLowerCase().endsWith(".svg")
IsSvgFile(name) ==
    LET lower == ToLowerCase(name)
    IN  /\ Len(lower) >= Len(SvgSuffix)
        /\ SubSeq(lower, Len(lower) - Len(SvgSuffix) + 1, Len(lower)) = SvgSuffix

\* .replace(/--+/g, "-"): every run of two or more hyphens becomes one.
RECURSIVE CollapseHyphens(_)
CollapseHyphens(s) ==
    IF s = <<>> THEN <<>>
    ELSE IF Len(s) >= 2 /\ s[1] = "-" /\ s[2] = "-" THEN CollapseHyphens(Tail(s))
    ELSE <<Head(s)>> \o CollapseHyphens(Tail(s))

\* A plausible slip: the id joined without collapsing the hyphens.
IconIdUncollapsed(categorySlug, baseName) == categorySlug \o <<"-">> \o baseName

\* `${categorySlug}-${baseName}`.replace(/--+/g, "-")
IconId(categorySlug, baseName) ==
    CollapseHyphens(categorySlug \o <<"-">> \o baseName)

AssetsSegment == <<"a", "s", "s", "e", "t", "s">>

SvgSegment == <<"S", "V", "G">>

\* A plausible slip: the file name appended without encodeURIComponent.
CdnUrlRawFile(base, entryName, svgFile) ==
    IF base = None \/ Get(base) = <<>> THEN None
    ELSE Some(Get(base) \o <<"/">> \o EncodeURIComponent(entryName) \o <<"/">>
              \o SvgSegment \o <<"/">> \o svgFile)

\* A plausible slip: the template evaluated without the test of the base, so
\* that an absent base is spelled "undefined".
CdnUrlUntested(base, entryName, svgFile) ==
    Some((IF base = None THEN <<"u", "n", "d", "e", "f", "i", "n", "e", "d">>
          ELSE Get(base))
         \o <<"/">> \o EncodeURIComponent(entryName) \o <<"/">>
         \o SvgSegment \o <<"/">> \o EncodeURIComponent(svgFile))

\* `${ICON_CDN_BASE_URL}/${encodeURIComponent(entry.name)}/SVG/${encodeURIComponent(svgFile)}`
\* when the base is configured (a non-empty string is truthy), else null.
CdnUrl(base, entryName, svgFile) ==
    IF base = None \/ Get(base) = <<>> THEN None
    ELSE Some(Get(base) \o <<"/">> \o EncodeURIComponent(entryName) \o <<"/">>
              \o SvgSegment \o <<"/">> \o EncodeURIComponent(svgFile))

\* The descriptor of a category whose metadata.json gave nothing: {}.
EmptyMetadata ==
    [name |-> None, description |-> None, keyword |-> None, metaphor |-> None]

\* (await readJsonFile(metadataPath)) ?? {}
MetadataOrEmpty(read) == IF read = None THEN EmptyMetadata ELSE Get(read)

\* A plausible slip: the field copied without its "?? fallback".
CoalesceAbsent(a, b) == IF a = None THEN None ELSE Get(a)

\* a ?? b
Coalesce(a, b) == IF a = None THEN b ELSE Get(a)

\* The record pushed for one qualifying file of a category.
IconRecord(base, entryName, metadata, svgFile) ==
    LET parsed == parseFileDetails(svgFile)
        categorySlug == slugify(entryName)
    IN  [ id |-> IconId(categorySlug, parsed.baseName),
          category |-> entryName,
          categorySlug |-> categorySlug,
          name |-> Coalesce(metadata.name, entryName),
          description |-> metadata.description,
          keyword |-> metadata.keyword,
          tags |-> Coalesce(metadata.metaphor, <<>>),
          size |-> parsed.size,
          style |-> parsed.style,
          file |-> svgFile,
          relativePath |-> PathJoin(<<AssetsSegment, entryName, SvgSegment, svgFile>>),
          cdnUrl |-> CdnUrl(base, entryName, svgFile) ]

\* A plausible slip: icons.unshift instead of icons.push within a category.
RECURSIVE CategoryRecordsNewestFirst(_, _, _, _)
CategoryRecordsNewestFirst(base, entryName, metadata, svgFiles) ==
    IF svgFiles = <<>> THEN <<>>
    ELSE CategoryRecordsNewestFirst(base, entryName, metadata, Tail(svgFiles))
         \o (IF IsSvgFile(Head(svgFiles))
             THEN <<IconRecord(base, entryName, metadata, Head(svgFiles))>>
             ELSE <<>>)

\* The inner loop over svgFiles: one record per file that passes the suffix
\* test, in listing order.
RECURSIVE CategoryRecords(_, _, _, _)
CategoryRecords(base, entryName, metadata, svgFiles) ==
    IF svgFiles = <<>> THEN <<>>
    ELSE (IF IsSvgFile(Head(svgFiles))
          THEN <<IconRecord(base, entryName, metadata, Head(svgFiles))>>
          ELSE <<>>)
         \o CategoryRecords(base, entryName, metadata, Tail(svgFiles))

\* JSON.stringify({generatedAt, count: icons.length, icons}): the text as a
\* sequence of pieces, the head with the timestamp and the count, one piece
\* per record, and the closing piece.
SerializeManifest(generatedAt, iconList) ==
    <<[kind |-> "head", generatedAt |-> generatedAt, count |-> Len(iconList)]>>
    \o [i \in 1..Len(iconList) |-> [kind |-> "icon", icon |-> iconList[i]]]
    \o <<[kind |-> "end"]>>

(***************************************************************************)
(* The asset trees and the environment of a run                            *)
(***************************************************************************)
MaxEntries == 2

\* Directory names under assets/, in enumeration order: two labels with the
\* same slug and an accented one.
EntryNames ==
    << <<"a", " ", "b">>, <<"A", "-", "B">>, <<"E_ACUTE">> >>

\* Names found in an SVG subfolder, in enumeration order: two image files
\* whose stems hold a space and differ only in a run of hyphens, the second
\* with an upper-case suffix, and a file that is no image.
SvgDirNames ==
    << <<"x", " ", "-", "y", "_", "2", "_", "b", "o", "l", "d", ".", "s", "v", "g">>,
       <<"x", " ", "-", "-", "y", "_", "2", "_", "b", "o", "l", "d", ".", "S", "V", "G">>,
       <<"n", ".", "t", "x", "t">> >>

\* The subsequence of s at the positions in P.
RECURSIVE Pick(_, _)
Pick(s, P) ==
    IF s = <<>> THEN <<>>
    ELSE (IF Len(s) \in P THEN Pick(SubSeq(s, 1, Len(s) - 1), P) \o <<s[Len(s)]>>
          ELSE Pick(SubSeq(s, 1, Len(s) - 1), P))

SubSequences(s, n) ==
    {Pick(s, P) : P \in {Q \in SUBSET (1..Len(s)) : Cardinality(Q) <= n}}

\* What readdir(ASSETS_DIR, {withFileTypes: true}) can return: distinct
\* names, each a directory or not.
RootListings ==
    UNION { { [i \in 1..Len(names) |-> [name |-> names[i], isDirectory |-> dirs[i]]]
              : dirs \in [1..Len(names) -> BOOLEAN] }
            : names \in SubSequences(EntryNames, MaxEntries) }

\* What readdir(svgDir) can return.
SvgListings == SubSequences(SvgDirNames, Len(SvgDirNames))

\* What JSON.parse can return for a descriptor: one with every field, one
\* without a name or tags.
Descriptors ==
    { [ name |-> Some(<<"N">>), description |-> Some(<<"d">>),
        keyword |-> Some(<<"k">>), metaphor |-> Some(<< <<"t">>, <<"2">> >>) ],
      [ name |-> None, description |-> None,
        keyword |-> Some(<<"k">>), metaphor |-> None ] }

\* Values of the ICON_CDN_BASE_URL environment variable: unset, empty, only
\* path separators, and a location with trailing separators.
CdnEnvValues == {None, Some(<<>>), Some(<<"/">>), Some(<<"h", "/", "/">>)}

\* Values of new Date() during a run; a manifest of an earlier run has an
\* earlier timestamp.
Timestamps == {1, 2}

PriorTimestamp == 0

\* The manifest an earlier run left in the output file.
PriorManifest == SerializeManifest(PriorTimestamp, <<>>)

ManifestInit ==
    /\ pc = "start"
    /\ cdnBase \in {CdnBaseOf(env) : env \in CdnEnvValues}
    /\ entries = <<>>
    /\ idx = 1
    /\ icons = <<>>
    /\ buffer = <<>>
    /\ outputFile \in {None, Some(PriorManifest)}
    /\ exitCode = None
    /\ logged = None
    /\ qualifying = 0
    /\ visit = "none"
    /\ failure = "none"
    /\ fixedTree = None
    /\ firstRun = None

ManifestIdle ==
    /\ pc = "idle"
    /\ cdnBase = None
    /\ entries = <<>>
    /\ idx = 1
    /\ icons = <<>>
    /\ buffer = <<>>
    /\ outputFile = None
    /\ exitCode = None
    /\ logged = None
    /\ qualifying = 0
    /\ visit = "none"
    /\ failure = "none"
    /\ fixedTree = None
    /\ firstRun = None

\* What the file system answers about one entry of the root listing: the
\* entry is no directory, stat(svgDir) rejects, SVG is no directory,
\* readdir(svgDir) rejects, or the category is read (the outcome of
\* readJsonFile and the listing of svgDir).
Answer(kind, read, svgFiles) == [kind |-> kind, read |-> read, svgFiles |-> svgFiles]

NoRead == [cause |-> "none", value |-> None]

\* The file system gives this answer about the entry at idx: any answer when
\* it answers freely, the answer of the tree when the tree is fixed.
Answers(answer) ==
    IF fixedTree = None THEN TRUE ELSE Get(fixedTree).outcomes[idx] = answer

\* The file system gives this answer to readdir(ASSETS_DIR).
RootAnswers(answer) ==
    IF fixedTree = None THEN TRUE ELSE Get(fixedTree).root = answer

\* What readdir(ASSETS_DIR) can return now.
RootListingsNow ==
    IF fixedTree = None THEN RootListings
    ELSE IF Get(fixedTree).root = None THEN {}
    ELSE {Get(Get(fixedTree).root)}

\* What readdir(svgDir) can return now for the entry at idx.
SvgListingsNow ==
    IF fixedTree = None THEN SvgListings ELSE {Get(fixedTree).outcomes[idx].svgFiles}

\* The rejection handler of generateManifest(): console.error, process.exit(1).
Abort(why) ==
    /\ pc' = "failed"
    /\ exitCode' = Some(1)
    /\ failure' = why

\* readdir(ASSETS_DIR) resolves.
ReadRoot ==
    /\ pc = "start"
    /\ \E listing \in RootListingsNow :
          /\ RootAnswers(Some(listing))
          /\ entries' = listing
    /\ pc' = "walk"
    /\ UNCHANGED <<notManifest, rerunVars, cdnBase, idx, icons, buffer, outputFile, exitCode, logged,
                   qualifying, visit, failure>>

\* A plausible slip: the output file opened for writing before the walk, so
\* that a failed root listing leaves it empty.
ReadRootFailsAfterOpen ==
    /\ pc = "start"
    /\ Abort("root")
    /\ outputFile' = Some(<<>>)
    /\ UNCHANGED <<notManifest, rerunVars, cdnBase, entries, idx, icons, buffer, logged,
                   qualifying, visit>>

\* readdir(ASSETS_DIR) rejects: the asset root is missing or unreadable.
ReadRootFails ==
    /\ pc = "start"
    /\ RootAnswers(None)
    /\ Abort("root")
    /\ UNCHANGED <<notManifest, rerunVars, cdnBase, entries, idx, icons, buffer, outputFile, logged,
                   qualifying, visit>>

AtEntry == pc = "walk" /\ idx <= Len(entries)

Continue(what) ==
    /\ idx' = idx + 1
    /\ visit' = what
    /\ UNCHANGED <<notManifest, rerunVars, pc, cdnBase, entries, icons, buffer, outputFile, exitCode,
                   logged, qualifying, failure>>

\* if (!entry.isDirectory()) continue
SkipNotDirectory ==
    /\ AtEntry
    /\ ~entries[idx].isDirectory
    /\ Answers(Answer("notDirectory", NoRead, <<>>))
    /\ Continue("notDirectory")

\* stat(svgDir) rejects: the category has no SVG subfolder.
SkipStatFails ==
    /\ AtEntry
    /\ entries[idx].isDirectory
    /\ Answers(Answer("statFailed", NoRead, <<>>))
    /\ Continue("statFailed")

\* A plausible slip: no isDirectory() test on the result of stat, so that
\* readdir(svgDir) runs on a file and rejects.
SvgNotDirectoryFallsThrough ==
    /\ AtEntry
    /\ entries[idx].isDirectory
    /\ Abort("svgDir")
    /\ visit' = "svgNotDirectory"
    /\ UNCHANGED <<notManifest, rerunVars, cdnBase, entries, idx, icons, buffer, outputFile, logged,
                   qualifying>>

\* stat(svgDir) resolves and SVG is not a directory.
SkipSvgNotDirectory ==
    /\ AtEntry
    /\ entries[idx].isDirectory
    /\ Answers(Answer("svgNotDirectory", NoRead, <<>>))
    /\ Continue("svgNotDirectory")

\* The outcomes of readJsonFile: readFile rejects, JSON.parse throws (both
\* caught, null), or the parsed descriptor.
MetadataReads ==
    {[cause |-> "missing", value |-> None], [cause |-> "malformed", value |-> None]}
    \cup {[cause |-> "parsed", value |-> Some(d)] : d \in Descriptors}

\* stat(svgDir) says directory, readJsonFile returns, readdir(svgDir)
\* resolves, and the inner loop pushes the records of the category.
ProcessCategory ==
    /\ AtEntry
    /\ entries[idx].isDirectory
    /\ \E read \in MetadataReads, svgFiles \in SvgListingsNow :
          /\ Answers(Answer("category", read, svgFiles))
          /\ icons' = icons \o CategoryRecords(cdnBase, entries[idx].name,
                                               MetadataOrEmpty(read.value), svgFiles)
          /\ qualifying' = qualifying
                + Cardinality({i \in 1..Len(svgFiles) : HasImageSuffix(svgFiles[i])})
          /\ visit' = read.cause
    /\ idx' = idx + 1
    /\ UNCHANGED <<notManifest, rerunVars, pc, cdnBase, entries, buffer, outputFile, exitCode, logged,
                   failure>>

\* stat(svgDir) says directory, readJsonFile returns, and readdir(svgDir)
\* rejects (the subfolder cannot be read): nothing catches it.
SvgDirUnreadable ==
    /\ AtEntry
    /\ entries[idx].isDirectory
    /\ \E read \in MetadataReads : Answers(Answer("unreadable", read, <<>>))
    /\ Abort("svgDir")
    /\ visit' = "unreadable"
    /\ UNCHANGED <<notManifest, rerunVars, cdnBase, entries, idx, icons, buffer, outputFile, logged,
                   qualifying>>

\* The loop is over: JSON.stringify builds the text and writeFile opens
\* OUTPUT_FILE with flag "w", which creates it or truncates it to nothing.
OpenOutput ==
    /\ pc = "walk"
    /\ idx > Len(entries)
    /\ \E now \in Timestamps : buffer' = SerializeManifest(now, icons)
    /\ outputFile' = Some(<<>>)
    /\ pc' = "writing"
    /\ UNCHANGED <<notManifest, rerunVars, cdnBase, entries, idx, icons, exitCode, logged, qualifying,
                   visit, failure>>

\* writeFile cannot open OUTPUT_FILE: the file is left as it was.
OpenOutputFails ==
    /\ pc = "walk"
    /\ idx > Len(entries)
    /\ Abort("write")
    /\ UNCHANGED <<notManifest, rerunVars, cdnBase, entries, idx, icons, buffer, outputFile, logged,
                   qualifying, visit>>

\* writeFile writes the next piece of the text.
WritePiece ==
    /\ pc = "writing"
    /\ Len(Get(outputFile)) < Len(buffer)
    /\ outputFile' = Some(SubSeq(buffer, 1, Len(Get(outputFile)) + 1))
    /\ UNCHANGED <<notManifest, rerunVars, pc, cdnBase, entries, idx, icons, buffer, exitCode, logged,
                   qualifying, visit, failure>>

\* A write fails (disk full, I/O error): writeFile rejects and the file
\* keeps what was written.
WriteFails ==
    /\ pc = "writing"
    /\ Len(Get(outputFile)) < Len(buffer)
    /\ Abort("write")
    /\ UNCHANGED <<notManifest, rerunVars, cdnBase, entries, idx, icons, buffer, outputFile, logged,
                   qualifying, visit>>

\* writeFile resolves; console.log reports the number of icons.
LogGenerated ==
    /\ pc = "writing"
    /\ Len(Get(outputFile)) = Len(buffer)
    /\ logged' = Some(Len(icons))
    /\ pc' = "done"
    /\ exitCode' = Some(0)
    /\ UNCHANGED <<notManifest, rerunVars, cdnBase, entries, idx, icons, buffer, outputFile, qualifying,
                   visit, failure>>

(***************************************************************************)
(* generateManifest run twice over one asset tree                          *)
(***************************************************************************)
Reverse(s) == [i \in 1..Len(s) |-> s[Len(s) + 1 - i]]

\* Root listings in the one and in the other enumeration order.
RerunRootListings ==
    RootListings \cup {Reverse(listing) : listing \in RootListings}

\* The answers about one entry: the failures, a category without a
\* descriptor, and a category with one whose images are listed in the
\* other order.
RerunOutcomes ==
    { Answer("notDirectory", NoRead, <<>>),
      Answer("statFailed", NoRead, <<>>),
      Answer("svgNotDirectory", NoRead, <<>>),
      Answer("unreadable", [cause |-> "missing", value |-> None], <<>>),
      Answer("category", [cause |-> "missing", value |-> None], SvgDirNames),
      Answer("category",
             [cause |-> "parsed",
              value |-> Some(CHOOSE d \in Descriptors : d.name # None)],
             Reverse(SvgDirNames)) }

\* The asset trees: an asset root that cannot be listed, or a root listing
\* with an answer for each of its entries.
RerunTrees ==
    {[root |-> None, outcomes |-> <<>>]}
    \cup UNION { { [root |-> Some(listing), outcomes |-> o]
                   : o \in { f \in [1..Len(listing) -> RerunOutcomes] :
                              \A i \in 1..Len(listing) :
                                  f[i].kind = "notDirectory" <=> ~listing[i].isDirectory } }
                 : listing \in RerunRootListings }

\* The first of two runs over a fixed tree, with no output file yet.
RerunInit ==
    /\ pc = "start"
    /\ cdnBase \in {CdnBaseOf(env) : env \in CdnEnvValues}
    /\ entries = <<>>
    /\ idx = 1
    /\ icons = <<>>
    /\ buffer = <<>>
    /\ outputFile = None
    /\ exitCode = None
    /\ logged = None
    /\ qualifying = 0
    /\ visit = "none"
    /\ failure = "none"
    /\ fixedTree \in {Some(t) : t \in RerunTrees}
    /\ firstRun = None

\* The script is run again after it ended, in the same environment and
\* over the same tree: a new process, with the output file as the first
\* run left it.
Rerun ==
    /\ pc \in {"done", "failed"}
    /\ fixedTree # None
    /\ firstRun = None
    /\ firstRun' = Some([icons |-> icons, manifest |-> buffer, pc |-> pc])
    /\ pc' = "start"
    /\ entries' = <<>>
    /\ idx' = 1
    /\ icons' = <<>>
    /\ buffer' = <<>>
    /\ exitCode' = None
    /\ logged' = None
    /\ qualifying' = 0
    /\ visit' = "none"
    /\ failure' = "none"
    /\ UNCHANGED <<notManifest, cdnBase, outputFile, fixedTree>>

(***************************************************************************)
(* The batched uploader                                                    *)
(***************************************************************************)
\* A directory tree: a sequence of entries in enumeration order, each a
\* file or a directory with its own entries.
FileEntry(name) == [name |-> name, isDirectory |-> FALSE, children |-> <<>>]

DirEntry(name, children) == [name |-> name, isDirectory |-> TRUE, children |-> children]

\* path.join(base, name) with base "" at the top.
JoinRelative(base, name) ==
    IF base = <<>> THEN name ELSE PathJoin(<<base, name>>)

\* collectSvgFiles(dir, base): depth first, in enumeration order, the
\* relative path of every file whose lowercased name ends in ".svg".
RECURSIVE collectSvgFiles(_, _)
collectSvgFiles(dirEntries, base) ==
    IF dirEntries = <<>> THEN <<>>
    ELSE LET entry == Head(dirEntries)
             relative == JoinRelative(base, entry.name)
         IN  (IF entry.isDirectory THEN collectSvgFiles(entry.children, relative)
              ELSE IF IsSvgFile(entry.name) THEN <<relative>>
              ELSE <<>>)
             \o collectSvgFiles(Tail(dirEntries), base)

\* segment.replace(/\\/g, "/")
BackslashesToSlashes(s) == [i \in 1..Len(s) |-> IF s[i] = "\\" THEN "/" ELSE s[i]]

\* A plausible slip: the key built from path.basename of the file.
ObjectKeyBaseName(prefix, relativePath) ==
    LET names == {SubSeq(relativePath, i, Len(relativePath)) :
                     i \in {j \in 1..Len(relativePath) :
                               j = 1 \/ relativePath[j - 1] = "/"}}
        base == CHOOSE n \in names : \A m \in names : Len(n) <= Len(m)
    IN  IF prefix = None \/ Get(prefix) = <<>> THEN base
        ELSE Get(prefix) \o <<"/">> \o base

\* [config.prefix, relativePath].filter(Boolean).map(...).join("/")
ObjectKey(prefix, relativePath) ==
    PathJoin(SelectSeq(
        << IF prefix = None THEN <<>> ELSE BackslashesToSlashes(Get(prefix)),
           BackslashesToSlashes(relativePath) >>,
        LAMBDA segment : segment # <<>>))

\* R2_PREFIX?.replace(/^\/+|\/+$/g, "")
RECURSIVE StripLeadingSlashes(_)
StripLeadingSlashes(s) ==
    IF s # <<>> /\ Head(s) = "/" THEN StripLeadingSlashes(Tail(s)) ELSE s

PrefixOf(env) ==
    IF env = None THEN None
    ELSE Some(StripTrailingSlashes(StripLeadingSlashes(Get(env))))

\* The default of uploadFile's retries parameter; main never passes another.
Retries == 5

RECURSIVE Pow2(_)
Pow2(n) == IF n = 0 THEN 1 ELSE 2 * Pow2(n - 1)

\* The batch size the model runs with.
BatchSizeBound == 2

\* A plausible slip: the loop stepping by one less than the batch size, so
\* that consecutive batches share a file.
RECURSIVE SplitBatchesOverlapping(_)
SplitBatchesOverlapping(fs) ==
    IF fs = <<>> THEN <<>>
    ELSE IF Len(fs) <= BatchSizeBound THEN <<fs>>
    ELSE <<SubSeq(fs, 1, BatchSizeBound)>>
         \o SplitBatchesOverlapping(SubSeq(fs, BatchSizeBound, Len(fs)))

\* A plausible slip: a delay that grows by a second per attempt.
BackoffDelayLinear(attempt) ==
    IF 1000 * attempt <= 10000 THEN 1000 * attempt ELSE 10000

\* Math.min(1000 * Math.pow(2, attempt - 1), 10000)
BackoffDelay(attempt) ==
    IF 1000 * Pow2(attempt - 1) <= 10000 THEN 1000 * Pow2(attempt - 1) ELSE 10000

\* const BATCH_SIZE = 50 in the script; the model runs it scaled down to
\* BatchSizeBound, so that several batches fit in a few files.
BATCH_SIZE == BatchSizeBound

\* files.slice(i, i + BATCH_SIZE) for i = 0, BATCH_SIZE, 2 * BATCH_SIZE, ...
RECURSIVE SplitBatches(_)
SplitBatches(fs) ==
    IF fs = <<>> THEN <<>>
    ELSE IF Len(fs) <= BATCH_SIZE THEN <<fs>>
    ELSE <<SubSeq(fs, 1, BATCH_SIZE)>> \o SplitBatches(SubSeq(fs, BATCH_SIZE + 1, Len(fs)))

\* uploadFile called on every file of a batch: each runs to its first
\* await, the readFile of the file.
StartBatch(prefix, batch) ==
    [i \in 1..Len(batch) |->
        [ file |-> batch[i], key |-> ObjectKey(prefix, batch[i]),
          phase |-> "reading", sends |-> <<>>, delays |-> <<>> ]]

MaxUploadFiles == 5

SvgNameOf(c) == <<c, ".", "s", "v", "g">>

\* The assets directory with n image files: one category with a descriptor
\* and an SVG subfolder, and further image files in a second category whose
\* name holds a backslash.
AssetTree(n) ==
    << DirEntry(<<"c">>,
         << FileEntry(<<"m", ".", "j", "s", "o", "n">>),
            DirEntry(SvgSegment,
              [i \in 1..(IF n <= 2 THEN n ELSE 2) |->
                  FileEntry(SvgNameOf(IF i = 1 THEN "p" ELSE "Q"))]) >>),
       DirEntry(<<"d", "\\", "e">>,
         << DirEntry(SvgSegment,
              [i \in 1..(IF n <= 2 THEN 0 ELSE n - 2) |->
                  FileEntry(SvgNameOf(LowerAlpha[i]))]) >>) >>

AssetTrees == {AssetTree(n) : n \in 0..MaxUploadFiles}

\* Values of the R2_PREFIX environment variable: unset, only separators,
\* and a prefix between separators.
PrefixEnvValues == {None, Some(<<"/">>), Some(<<"/", "k", "/">>)}

UploadInit ==
    /\ upc = "start"
    /\ keyPrefix = None
    /\ files = <<>>
    /\ batches = <<>>
    /\ batchIdx = 0
    /\ inFlight = <<>>
    /\ totalSuccess = 0
    /\ totalFailed = 0
    /\ progress = <<>>
    /\ summary = None
    /\ uploadExit = None
    /\ uploadFailure = "none"

UploadIdle ==
    /\ upc = "idle"
    /\ keyPrefix = None
    /\ files = <<>>
    /\ batches = <<>>
    /\ batchIdx = 0
    /\ inFlight = <<>>
    /\ totalSuccess = 0
    /\ totalFailed = 0
    /\ progress = <<>>
    /\ summary = None
    /\ uploadExit = None
    /\ uploadFailure = "none"

\* The rejection handler of main(): console.error, process.exit(1).
UploadAbort(why) ==
    /\ upc' = "failed"
    /\ uploadExit' = Some(1)
    /\ uploadFailure' = why

\* getConfig() returns: every required variable is set.
GetConfig ==
    /\ upc = "start"
    /\ \E env \in PrefixEnvValues : keyPrefix' = PrefixOf(env)
    /\ upc' = "stat"
    /\ UNCHANGED <<notUpload, files, batches, batchIdx, inFlight, totalSuccess,
                   totalFailed, progress, summary, uploadExit, uploadFailure>>

\* getConfig() throws: some required variables are missing.
GetConfigThrows ==
    /\ upc = "start"
    /\ UploadAbort("config")
    /\ UNCHANGED <<notUpload, keyPrefix, files, batches, batchIdx, inFlight,
                   totalSuccess, totalFailed, progress, summary>>

\* stat(ASSETS_DIRECTORY) resolves with a directory.
StatAssets ==
    /\ upc = "stat"
    /\ upc' = "collect"
    /\ UNCHANGED <<notUpload, keyPrefix, files, batches, batchIdx, inFlight,
                   totalSuccess, totalFailed, progress, summary, uploadExit,
                   uploadFailure>>

\* stat rejects or the path is no directory: main throws.
StatAssetsFails ==
    /\ upc = "stat"
    /\ UploadAbort("assets")
    /\ UNCHANGED <<notUpload, keyPrefix, files, batches, batchIdx, inFlight,
                   totalSuccess, totalFailed, progress, summary>>

\* collectSvgFiles resolves with no file: console.warn and return.
CollectNothing ==
    /\ upc = "collect"
    /\ \E tree \in AssetTrees :
          /\ collectSvgFiles(tree, <<>>) = <<>>
          /\ files' = <<>>
    /\ upc' = "done"
    /\ uploadExit' = Some(0)
    /\ UNCHANGED <<notUpload, keyPrefix, batches, batchIdx, inFlight, totalSuccess,
                   totalFailed, progress, summary, uploadFailure>>

\* collectSvgFiles resolves with files: main splits them into batches and
\* calls uploadBatch on the first, which starts every upload of the batch.
CollectAndStart ==
    /\ upc = "collect"
    /\ \E tree \in AssetTrees :
          /\ collectSvgFiles(tree, <<>>) # <<>>
          /\ files' = collectSvgFiles(tree, <<>>)
    /\ batches' = SplitBatches(files')
    /\ batchIdx' = 1
    /\ inFlight' = StartBatch(keyPrefix, batches'[1])
    /\ upc' = "uploading"
    /\ UNCHANGED <<notUpload, keyPrefix, totalSuccess, totalFailed, progress,
                   summary, uploadExit, uploadFailure>>

\* A readdir of collectSvgFiles rejects: main throws.
CollectFails ==
    /\ upc = "collect"
    /\ UploadAbort("collect")
    /\ UNCHANGED <<notUpload, keyPrefix, files, batches, batchIdx, inFlight,
                   totalSuccess, totalFailed, progress, summary>>

UploadStep(k, next) ==
    /\ inFlight' = [inFlight EXCEPT ![k] = next]
    /\ UNCHANGED <<notUpload, upc, keyPrefix, files, batches, batchIdx,
                   totalSuccess, totalFailed, progress, summary, uploadExit,
                   uploadFailure>>

\* uploadFile: readFile resolves, the command is built and the loop sends
\* it for the first time.
ReadFileOk ==
    /\ upc = "uploading"
    /\ \E k \in 1..Len(inFlight) :
          /\ inFlight[k].phase = "reading"
          /\ UploadStep(k, [inFlight[k] EXCEPT !.phase = "sending"])

\* uploadFile: readFile rejects, outside the try: uploadFile rejects, so
\* Promise.all, uploadBatch and main reject.
ReadFileFails ==
    /\ upc = "uploading"
    /\ \E k \in 1..Len(inFlight) : inFlight[k].phase = "reading"
    /\ UploadAbort("readFile")
    /\ UNCHANGED <<notUpload, keyPrefix, files, batches, batchIdx, inFlight,
                   totalSuccess, totalFailed, progress, summary>>

\* uploadFile: client.send resolves, return true.
SendOk ==
    /\ upc = "uploading"
    /\ \E k \in 1..Len(inFlight) :
          /\ inFlight[k].phase = "sending"
          /\ UploadStep(k, [inFlight[k] EXCEPT
                               !.phase = "ok",
                               !.sends = Append(@, "ok")])

\* uploadFile: client.send rejects on the last attempt, return false; on an
\* earlier attempt, wait for the backoff delay.
SendFails ==
    /\ upc = "uploading"
    /\ \E k \in 1..Len(inFlight) :
          /\ inFlight[k].phase = "sending"
          /\ LET attempt == Len(inFlight[k].sends) + 1
             IN  IF attempt = Retries
                 THEN UploadStep(k, [inFlight[k] EXCEPT
                                        !.phase = "failed",
                                        !.sends = Append(@, "error")])
                 ELSE UploadStep(k, [inFlight[k] EXCEPT
                                        !.phase = "waiting",
                                        !.sends = Append(@, "error"),
                                        !.delays = Append(@, BackoffDelay(attempt))])

\* uploadFile: the backoff timer fires and the loop sends again.
TimerFires ==
    /\ upc = "uploading"
    /\ \E k \in 1..Len(inFlight) :
          /\ inFlight[k].phase = "waiting"
          /\ UploadStep(k, [inFlight[k] EXCEPT !.phase = "sending"])

AllSettled ==
    /\ upc = "uploading"
    /\ \A k \in 1..Len(inFlight) : inFlight[k].phase \in {"ok", "failed"}

\* results.filter((r) => r).length
BatchSuccess == Cardinality({k \in 1..Len(inFlight) : inFlight[k].phase = "ok"})

\* results.length - success
BatchFailed == Len(inFlight) - BatchSuccess

\* Promise.all resolves: uploadBatch counts and returns, main adds to the
\* totals, logs the progress and calls uploadBatch on the next batch.
NextBatch ==
    /\ AllSettled
    /\ batchIdx < Len(batches)
    /\ totalSuccess' = totalSuccess + BatchSuccess
    /\ totalFailed' = totalFailed + BatchFailed
    /\ progress' = Append(progress, totalSuccess' + totalFailed')
    /\ batchIdx' = batchIdx + 1
    /\ inFlight' = StartBatch(keyPrefix, batches[batchIdx + 1])
    /\ UNCHANGED <<notUpload, upc, keyPrefix, files, batches, summary,
                   uploadExit, uploadFailure>>

\* The same after the last batch: main logs the summary and returns.
LastBatch ==
    /\ AllSettled
    /\ batchIdx = Len(batches)
    /\ totalSuccess' = totalSuccess + BatchSuccess
    /\ totalFailed' = totalFailed + BatchFailed
    /\ progress' = Append(progress, totalSuccess' + totalFailed')
    /\ summary' = Some([successful |-> totalSuccess', failed |-> totalFailed',
                        outOf |-> Len(files)])
    /\ upc' = "done"
    /\ uploadExit' = Some(0)
    /\ UNCHANGED <<notUpload, keyPrefix, files, batches, batchIdx, inFlight,
                   uploadFailure>>

(***************************************************************************)
(* The gallery: App and onInsertIcon                                       *)
(***************************************************************************)
\* The most calls of onInsertIcon in one session of the gallery.
MaxInsertions == 3

\* The catalog the gallery shows, one card per record.
ICONS == << [id |-> <<"a">>], [id |-> <<"b">>], [id |-> <<"c">>] >>

Cards == 1..Len(ICONS)

\* The disabled attribute of a card as rendered from the component's state.
\* React renders the state set in a handler before the next event is handled,
\* so the rendered attribute is read off the current state.
Disabled(card) ==
    \/ ~isUploadSupported
    \/ activeIconId = Some(ICONS[card].id)

\* A call of onInsertIcon that has not reached the end of its finally block.
InFlight(i) == insertions[i].at \in {"upload", "addNativeElement"}

\* A call of onInsertIcon: the card it was made for, its position, and the
\* call whose error it logged, if any.
Insertion(card, at, error) == [card |-> card, at |-> at, error |-> error]

GalleryInit ==
    /\ isUploadSupported \in BOOLEAN
    /\ activeIconId = None
    /\ insertions = <<>>
    /\ design = <<>>

GalleryIdle ==
    /\ isUploadSupported = FALSE
    /\ activeIconId = None
    /\ insertions = <<>>
    /\ design = <<>>

\* A click on an enabled card: onInsertIcon runs up to its first await, the
\* pending upload.
OnInsertIcon(card) ==
    /\ Len(insertions) < MaxInsertions
    /\ ~Disabled(card)
    /\ isUploadSupported
    /\ activeIconId' = Some(ICONS[card].id)
    /\ insertions' = Append(insertions, Insertion(card, "upload", None))
    /\ UNCHANGED <<notGallery, isUploadSupported, design>>

\* upload resolves: the call goes on to addNativeElement and awaits it.
UploadResolves(i) ==
    /\ insertions[i].at = "upload"
    /\ insertions' = [insertions EXCEPT ![i].at = "addNativeElement"]
    /\ UNCHANGED <<notGallery, isUploadSupported, activeIconId, design>>

\* upload rejects: the error is logged and the finally block runs.
UploadRejects(i) ==
    /\ insertions[i].at = "upload"
    /\ insertions' =
           [insertions EXCEPT
               ![i] = Insertion(insertions[i].card, "failed", Some("upload"))]
    /\ activeIconId' = None
    /\ UNCHANGED <<notGallery, isUploadSupported, design>>

\* addNativeElement resolves: the element is in the design and the finally
\* block runs.
AddNativeElementResolves(i) ==
    /\ insertions[i].at = "addNativeElement"
    /\ design' = Append(design, ICONS[insertions[i].card].id)
    /\ insertions' = [insertions EXCEPT ![i].at = "inserted"]
    /\ activeIconId' = None
    /\ UNCHANGED <<notGallery, isUploadSupported>>

\* addNativeElement rejects: the error is logged and the finally block runs.
AddNativeElementRejects(i) ==
    /\ insertions[i].at = "addNativeElement"
    /\ insertions' =
           [insertions EXCEPT
               ![i] = Insertion(insertions[i].card, "failed",
                                Some("addNativeElement"))]
    /\ activeIconId' = None
    /\ UNCHANGED <<notGallery, isUploadSupported, design>>

(***************************************************************************)
(* Specifications                                                          *)
(***************************************************************************)
ManifestNext ==
    \/ ReadRoot
    \/ ReadRootFails
    \/ SkipNotDirectory
    \/ SkipStatFails
    \/ SkipSvgNotDirectory
    \/ ProcessCategory
    \/ SvgDirUnreadable
    \/ OpenOutput
    \/ OpenOutputFails
    \/ WritePiece
    \/ WriteFails
    \/ LogGenerated

Next == ManifestNext

Init == ManifestInit /\ SlugIdle /\ ParseIdle /\ UploadIdle /\ GalleryIdle

Spec == Init /\ [][Next]_vars

RerunNext ==
    \/ ReadRoot
    \/ ReadRootFails
    \/ SkipNotDirectory
    \/ SkipStatFails
    \/ SkipSvgNotDirectory
    \/ ProcessCategory
    \/ SvgDirUnreadable
    \/ OpenOutput
    \/ OpenOutputFails
    \/ WritePiece
    \/ WriteFails
    \/ LogGenerated
    \/ Rerun

InitRerun == RerunInit /\ SlugIdle /\ ParseIdle /\ UploadIdle /\ GalleryIdle

SpecRerun == InitRerun /\ [][RerunNext]_vars

UploadNext ==
    \/ GetConfig
    \/ GetConfigThrows
    \/ StatAssets
    \/ StatAssetsFails
    \/ CollectNothing
    \/ CollectAndStart
    \/ CollectFails
    \/ ReadFileOk
    \/ ReadFileFails
    \/ SendOk
    \/ SendFails
    \/ TimerFires
    \/ NextBatch
    \/ LastBatch

InitUpload == UploadInit /\ SlugIdle /\ ParseIdle /\ ManifestIdle /\ GalleryIdle

SpecUpload == InitUpload /\ [][UploadNext]_vars

ParseNext == ParseFileDetails

InitParse == ParseInit /\ SlugIdle /\ ManifestIdle /\ UploadIdle /\ GalleryIdle

SpecParse == InitParse /\ [][ParseNext]_vars

SlugNext ==
    \/ SlugifyOnce
    \/ SlugifyTwice

InitSlug == SlugInit /\ ParseIdle /\ ManifestIdle /\ UploadIdle /\ GalleryIdle

SpecSlug == InitSlug /\ [][SlugNext]_vars

GalleryNext ==
    \/ \E card \in Cards : OnInsertIcon(card)
    \/ \E i \in 1..Len(insertions) : UploadResolves(i)
    \/ \E i \in 1..Len(insertions) : UploadRejects(i)
    \/ \E i \in 1..Len(insertions) : AddNativeElementResolves(i)
    \/ \E i \in 1..Len(insertions) : AddNativeElementRejects(i)

InitGallery ==
    GalleryInit /\ SlugIdle /\ ParseIdle /\ ManifestIdle /\ UploadIdle

SpecGallery == InitGallery /\ [][GalleryNext]_vars

(***************************************************************************)
(* Claims                                                                  *)
(***************************************************************************)
\* C1: in a catalog produced by generateManifest, if no two records share
\* the same (categorySlug, filename stem) pair then no two records share the
\* same id.
C1_UniqueIds ==
    pc = "done" =>
        ( (\A i, j \in 1..Len(icons) :
              i # j => <<icons[i].categorySlug, StemOf(icons[i].file)>>
                       # <<icons[j].categorySlug, StemOf(icons[j].file)>>)
          => (\A i, j \in 1..Len(icons) : i # j => icons[i].id # icons[j].id) )

\* C2: at every moment the output file is absent, or holds the complete
\* manifest of the earlier run, or holds the complete manifest of this run:
\* this is what a concurrent reader can observe.
C2_AllOrNothing ==
    \/ outputFile \in {None, Some(PriorManifest)}
    \/ pc \in {"writing", "done", "failed"} /\ outputFile = Some(buffer)

\* C3: a failure confined to one category never aborts the run; once the
\* asset root has been enumerated the walk goes on to the end, so a run
\* fails only on the root listing (or later, in writing the output).
C3_CategoryFailureNeverAborts ==
    pc = "failed" => failure \in {"root", "write"}

\* C4: a failure met while uploading one file is isolated to that file:
\* once main has started uploading, the run is not aborted, so the other
\* files of the batch settle and are counted and the later batches start.
C4_FailureIsolated == upc = "failed" => batchIdx = 0

\* The delays uploadFile waits after its 1st to 4th failed send:
\* min(1000 * 2^(k-1), 10000) milliseconds for k = 1..4.
ClaimedDelays == <<1000, 2000, 4000, 8000>>

\* C5: uploadFile sends at most 5 times, stops with success at the first
\* send that succeeds, waits min(1000 * 2^(k-1), 10000) ms after the k-th
\* failed send before the next one, and reports the file as failed only
\* after the 5th send has failed.
C5_BoundedRetry ==
    \A k \in 1..Len(inFlight) :
        LET u == inFlight[k]
            n == Len(u.sends)
        IN  /\ n <= 5
            /\ \A i \in 1..(n - 1) : u.sends[i] = "error"
            /\ u.phase = "ok" <=> (n >= 1 /\ u.sends[n] = "ok")
            /\ u.phase = "failed" <=> (n = 5 /\ u.sends[n] = "error")
            /\ u.phase \in {"sending", "waiting"} => n < 5
            /\ Len(u.delays) <= Len(ClaimedDelays)
            /\ \A i \in 1..Len(u.delays) : u.delays[i] = ClaimedDelays[i]
            /\ u.phase = "sending" => Len(u.delays) = n
            /\ u.phase = "waiting" => Len(u.delays) = n
            /\ u.phase = "ok" => Len(u.delays) = n - 1
            /\ u.phase = "failed" => Len(u.delays) = n - 1

\* One upload of a batch has failed after five sends and four waits, while
\* another succeeded at its third send.
C5_Witness ==
    /\ \E k \in 1..Len(inFlight) :
          /\ inFlight[k].phase = "failed"
          /\ inFlight[k].delays = <<1000, 2000, 4000, 8000>>
    /\ \E k \in 1..Len(inFlight) :
          /\ inFlight[k].phase = "ok"
          /\ inFlight[k].sends = <<"error", "error", "ok">>

\* The number of files in the first n batches.
RECURSIVE FilesInBatches(_)
FilesInBatches(n) == IF n = 0 THEN 0 ELSE FilesInBatches(n - 1) + Len(batches[n])

\* C6: no file is dropped: after each batch totalSuccess + totalFailed is the
\* number of files of the batches completed so far, and whenever the run
\* ends after discovering at least one file a summary is emitted whose
\* successes and failures add up to the number of discovered files.
C6_NothingDropped ==
    /\ upc = "uploading" => totalSuccess + totalFailed = FilesInBatches(batchIdx - 1)
    /\ (upc \in {"done", "failed"} /\ Len(files) >= 1) =>
          /\ summary # None
          /\ Get(summary).successful + Get(summary).failed = Len(files)

\* The output file holds a whole manifest text.
IsWholeManifest(file) ==
    /\ file # None
    /\ Len(Get(file)) >= 2
    /\ Get(file)[1].kind = "head"
    /\ Get(file)[Len(Get(file))].kind = "end"

\* C7: in every manifest written, count equals the number of elements of
\* icons, and in the manifest of this run that number is the number of
\* image files found in the SVG subfolders of the processed categories.
C7_CountMatches ==
    IsWholeManifest(outputFile) =>
        /\ Get(outputFile)[1].count = Len(Get(outputFile)) - 2
        /\ Get(outputFile)[1].generatedAt # PriorTimestamp
              => Get(outputFile)[1].count = qualifying

\* A finished run over two categories that found three image files, one of
\* them with an upper-case suffix.
C7_Witness ==
    /\ pc = "done"
    /\ IsWholeManifest(outputFile)
    /\ Get(outputFile)[1].count = 3
    /\ qualifying = 3
    /\ \E i \in 1..Len(icons) :
          /\ HasImageSuffix(icons[i].file)
          /\ icons[i].file[Len(icons[i].file)] = "G"

\* C8: the output of slugify contains only lowercase letters a-z, digits and
\* hyphens, has no two adjacent hyphens, and neither starts nor ends with a
\* hyphen.
IsSlugShaped(s) ==
    /\ \A i \in 1..Len(s) : IsLowerAscii(s[i]) \/ s[i] \in DigitChars \/ s[i] = "-"
    /\ \A i \in 1..(Len(s) - 1) : ~(s[i] = "-" /\ s[i + 1] = "-")
    /\ s # <<>> => (s[1] # "-" /\ s[Len(s)] # "-")

\* C8: every slugify output is slug shaped.
C8_SlugShape == slugPc \in {"once", "twice"} => IsSlugShaped(slugOnce)

\* An accented, mixed-case, punctuated input whose slug keeps a hyphen.
C8_Witness ==
    /\ slugPc = "once"
    /\ slugIn = <<"E_ACUTE", " ", "_", "Z">>
    /\ slugOnce = <<"e", "-", "z">>

\* C9: slugify is idempotent, slugify(slugify(s)) = slugify(s).
C9_Idempotent == slugPc = "twice" => slugTwice = slugOnce

\* An input that slugify changes, slugified twice.
C9_Witness ==
    /\ slugPc = "twice"
    /\ slugIn = <<"_", "Z", "-">>
    /\ slugOnce = <<"z">>
    /\ slugTwice = <<"z">>

\* C10: parseFileDetails reports a style exactly when the stem ends with an
\* underscore followed by one of the five style words in any letter case, and
\* the style is then that word in lowercase; a style word elsewhere in the
\* stem yields no style.
C10_StyleSuffix ==
    parsePc = "done" =>
        /\ details.style # None
              <=> \E w \in StyleWords : EndsWithStyleToken(StemOf(fileName), w)
        /\ \A w \in StyleWords :
              EndsWithStyleToken(StemOf(fileName), w) => details.style = Some(w)

\* x_BOLD.svg: an upper-case style token at the very end of the stem.
C10_Witness ==
    /\ parsePc = "done"
    /\ fileName = <<"x", "_", "B", "O", "L", "D", ".", "s", "v", "g">>
    /\ details.style = Some(<<"b", "o", "l", "d">>)

\* BOLD_x.svg: a style word that is not the last token yields no style.
C10_WitnessNotFinal ==
    /\ parsePc = "done"
    /\ fileName = <<"B", "O", "L", "D", "_", "x", ".", "s", "v", "g">>
    /\ details.style = None

\* The decimal value of a run of digits, read left to right.
RECURSIVE DecimalValue(_, _)
DecimalValue(ds, acc) ==
    IF ds = <<>> THEN acc
    ELSE DecimalValue(Tail(ds), 10 * acc + (CHOOSE d \in 0..9 : DigitValue(Head(ds)) = d))

\* stem[i..j] is a numeric token: a run of digits delimited by an underscore
\* before it and by an underscore or the end of the stem after it (as the
\* style token is delimited by an underscore and the end of the stem).
IsNumericToken(stem, i, j) ==
    /\ 2 <= i
    /\ i <= j
    /\ j <= Len(stem)
    /\ stem[i - 1] = "_"
    /\ \A k \in i..j : stem[k] \in DigitChars
    /\ j = Len(stem) \/ stem[j + 1] = "_"

NumericTokens(stem) ==
    {t \in (1..Len(stem)) \X (1..Len(stem)) : IsNumericToken(stem, t[1], t[2])}

\* The value of the first numeric token of the stem, None when it has none.
FirstNumericToken(stem) ==
    IF NumericTokens(stem) = {} THEN None
    ELSE LET first == CHOOSE t \in NumericTokens(stem) :
                          \A u \in NumericTokens(stem) : t[1] <= u[1]
         IN  Some(DecimalValue(SubSeq(stem, first[1], first[2]), 0))

\* C11: parseFileDetails reports as size the value of the first
\* underscore-delimited run of digits of the stem and no size when the stem
\* has no such token; a file name with neither a numeric nor a style token
\* gets neither facet, and parsing always returns.
C11_SizeToken ==
    parsePc = "done" =>
        /\ details.size = FirstNumericToken(StemOf(fileName))
        /\ ( /\ NumericTokens(StemOf(fileName)) = {}
             /\ \A w \in StyleWords : ~EndsWithStyleToken(StemOf(fileName), w) )
           => (details.size = None /\ details.style = None)

\* _2_x: a numeric token between two underscores is reported.
C11_WitnessInner ==
    /\ parsePc = "done"
    /\ fileName = <<"_", "2", "_", "x">>
    /\ details.size = Some(2)

\* x_2.svg: a numeric token at the end of the stem is not reported.
C11_WitnessFinal ==
    /\ parsePc = "done"
    /\ fileName = <<"x", "_", "2", ".", "s", "v", "g">>
    /\ details.size = None

\* s without every hyphen that follows a hyphen.
CollapsedOf(s) ==
    Pick(s, {i \in 1..Len(s) : ~(i > 1 /\ s[i] = "-" /\ s[i - 1] = "-")})

\* C12: the id of every record is slugify(category), a hyphen and the full
\* stem of the file name (only the image suffix removed), with every run of
\* hyphens collapsed to one hyphen.
C12_IdShape ==
    \A i \in 1..Len(icons) :
        icons[i].id =
            CollapsedOf(slugify(icons[i].category) \o <<"-">> \o StemOf(icons[i].file))

\* Category "a b" with "x --y_2_bold.SVG": the slug a-b, the stem with its
\* size and style tokens, and the two hyphens of the stem collapsed.
C12_Witness ==
    /\ pc = "done"
    /\ \E i \in 1..Len(icons) :
          /\ icons[i].category = <<"a", " ", "b">>
          /\ icons[i].file[Len(icons[i].file)] = "G"
          /\ icons[i].id = <<"a", "-", "b", "-", "x", " ", "-", "y", "_", "2", "_",
                             "b", "o", "l", "d">>
          /\ icons[i].size = Some(2)
          /\ icons[i].style = Some(<<"b", "o", "l", "d">>)

\* s begins with p.
StartsWith(s, p) == Len(p) <= Len(s) /\ SubSeq(s, 1, Len(p)) = p

\* The segments of s between the occurrences of the character sep.
RECURSIVE SegmentsOf(_, _)
SegmentsOf(s, sep) ==
    IF \A i \in 1..Len(s) : s[i] # sep THEN <<s>>
    ELSE LET at == Min({i \in 1..Len(s) : s[i] = sep})
         IN  <<SubSeq(s, 1, at - 1)>> \o SegmentsOf(SubSeq(s, at + 1, Len(s)), sep)

\* The percent escapes (UTF-8) of the characters that need one.
PercentEscapes ==
    { [text |-> <<"%", "2", "0">>, char |-> " "],
      [text |-> <<"%", "2", "F">>, char |-> "/"],
      [text |-> <<"%", "2", "5">>, char |-> "%"],
      [text |-> <<"%", "C", "3", "%", "8", "9">>, char |-> "E_ACUTE"] }

\* The text a percent-encoded path segment stands for; a character that
\* should have been escaped, or an unknown escape, decodes to "INVALID".
RECURSIVE PercentDecode(_)
PercentDecode(s) ==
    IF s = <<>> THEN <<>>
    ELSE IF Head(s) = "%"
    THEN IF \E e \in PercentEscapes : StartsWith(s, e.text)
         THEN LET e == CHOOSE x \in PercentEscapes : StartsWith(s, x.text)
              IN  <<e.char>> \o PercentDecode(SubSeq(s, Len(e.text) + 1, Len(s)))
         ELSE <<"INVALID">>
    ELSE IF \/ IsLowerAscii(Head(s)) \/ IsUpperAscii(Head(s)) \/ Head(s) \in DigitChars
            \/ Head(s) \in {"-", "_", ".", "!", "~", "*", "'", "(", ")"}
    THEN <<Head(s)>> \o PercentDecode(Tail(s))
    ELSE <<"INVALID">>

\* A remote base location is configured: the setting holds more than path
\* separators.
RemoteBaseConfigured == cdnBase # None /\ Get(cdnBase) # <<>>

\* base is a setting of the environment with its trailing separators
\* stripped.
IsStrippedSetting(base) ==
    /\ base = <<>> \/ base[Len(base)] # "/"
    /\ \E env \in CdnEnvValues :
          /\ env # None
          /\ StartsWith(Get(env), base)
          /\ \A k \in (Len(base) + 1)..Len(Get(env)) : Get(env)[k] = "/"

C14_NoBaseNoCdnUrl ==
    ~RemoteBaseConfigured =>
        /\ \A i \in 1..Len(icons) :
              /\ icons[i].cdnUrl = None
              /\ icons[i].relativePath =
                    <<"a", "s", "s", "e", "t", "s", "/">> \o icons[i].category
                    \o <<"/", "S", "V", "G", "/">> \o icons[i].file
        /\ pc = "done" =>
              /\ IsWholeManifest(outputFile)
              /\ Len(icons) = qualifying
              /\ Len(Get(outputFile)) = Len(icons) + 2
              /\ \A i \in 1..Len(icons) : Get(outputFile)[i + 1].icon = icons[i]

\* A finished run without the setting whose manifest holds two records.
C14_Witness ==
    /\ pc = "done"
    /\ cdnBase = None
    /\ Len(icons) >= 2
    /\ IsWholeManifest(outputFile)
    /\ \A i \in 1..Len(icons) : icons[i].cdnUrl = None

\* A finished run whose setting held only a path separator: no record has a
\* cdnUrl.
C14_WitnessSeparatorsOnly ==
    /\ pc = "done"
    /\ cdnBase = Some(<<>>)
    /\ Len(icons) >= 1
    /\ \A i \in 1..Len(icons) : icons[i].cdnUrl = None

\* C15: a category directory without the image subfolder (stat fails, or SVG
\* is no directory) adds no record and does not abort: the walk goes on to
\* the next entry with the records of the other categories kept, and a run
\* that ends well has written them all.
C15_MissingSubfolderSkipped ==
    /\ [][ (AtEntry /\ visit' \in {"statFailed", "svgNotDirectory"}) =>
               /\ icons' = icons
               /\ qualifying' = qualifying
               /\ idx' = idx + 1
               /\ pc' = "walk"
               /\ exitCode' = None
               /\ outputFile' = outputFile ]_vars
    /\ [](pc = "done" =>
               /\ IsWholeManifest(outputFile)
               /\ Len(Get(outputFile)) = Len(icons) + 2
               /\ \A i \in 1..Len(icons) : Get(outputFile)[i + 1].icon = icons[i])

\* A finished run over two directories: the first gave records, the second
\* had no image subfolder, and the manifest holds the records of the first.
C15_Witness ==
    /\ pc = "done"
    /\ Len(entries) = 2
    /\ visit \in {"statFailed", "svgNotDirectory"}
    /\ Len(icons) >= 1
    /\ \A i \in 1..Len(icons) : icons[i].category = entries[1].name
    /\ IsWholeManifest(outputFile)
    /\ Get(outputFile)[1].count = Len(icons)

C18_RootFailureAborts ==
    /\ [][ (failure = "none" /\ failure' = "root") =>
               /\ pc = "start"
               /\ pc' = "failed"
               /\ exitCode' = Some(1)
               /\ outputFile' = outputFile
               /\ outputFile \in {None, Some(PriorManifest)}
               /\ logged' = None ]_vars
    /\ [](failure = "root" =>
               /\ pc = "failed"
               /\ exitCode = Some(1)
               /\ outputFile \in {None, Some(PriorManifest)}
               /\ icons = <<>>
               /\ buffer = <<>>
               /\ logged = None)

\* The root listing failed with a prior manifest in place: it is unchanged.
C18_Witness ==
    /\ pc = "failed"
    /\ failure = "root"
    /\ exitCode = Some(1)
    /\ outputFile = Some(PriorManifest)

\* The category and file name of every record, in catalog order.
CatalogOrder(iconList) ==
    [i \in 1..Len(iconList) |-> <<iconList[i].category, iconList[i].file>>]

\* The category and file name of every image file of the tree, in the
\* enumeration order of the root and, within a category, of its subfolder.
RECURSIVE EnumerationOrder(_, _)
EnumerationOrder(listing, outcomes) ==
    IF listing = <<>> THEN <<>>
    ELSE LET images == SelectSeq(Head(outcomes).svgFiles, HasImageSuffix)
         IN  (IF Head(outcomes).kind = "category"
              THEN [i \in 1..Len(images) |-> <<Head(listing).name, images[i]>>]
              ELSE <<>>)
             \o EnumerationOrder(Tail(listing), Tail(outcomes))

\* C17: a second run over the same tree and configuration ends its walk
\* with the same icons sequence as the first, whatever the timestamps and
\* whatever the output file held; the records follow the enumeration order
\* of the root and, within each category, of its image subfolder.
C17_Deterministic ==
    /\ (firstRun # None /\ pc \in {"writing", "done", "failed"}) =>
          icons = Get(firstRun).icons
    /\ (firstRun # None /\ pc \in {"writing", "done"}
          /\ Get(firstRun).pc = "done") =>
          /\ Len(buffer) = Len(Get(firstRun).manifest)
          /\ \A i \in 2..Len(buffer) : buffer[i] = Get(firstRun).manifest[i]
          /\ buffer[1].count = Get(firstRun).manifest[1].count
    /\ (fixedTree # None /\ pc \in {"writing", "done"}) =>
          CatalogOrder(icons) =
              EnumerationOrder(Get(Get(fixedTree).root), Get(fixedTree).outcomes)

\* A second run that ended well at another time than the first, over a
\* tree of two categories, the first listing its images in the other
\* order: both runs gave the same four records.
C17_Witness ==
    /\ firstRun # None
    /\ pc = "done"
    /\ Get(firstRun).pc = "done"
    /\ Len(icons) = 4
    /\ icons = Get(firstRun).icons
    /\ buffer[1].generatedAt # Get(firstRun).manifest[1].generatedAt
    /\ icons[1].file[Len(icons[1].file)] = "G"
    /\ icons[3].category # icons[1].category

\* The object key without the configured key prefix and its separator.
KeyAfterPrefix(key) ==
    IF keyPrefix = None \/ Get(keyPrefix) = <<>> THEN key
    ELSE IF StartsWith(key, Get(keyPrefix) \o <<"/">>)
    THEN SubSeq(key, Len(Get(keyPrefix)) + 2, Len(key))
    ELSE <<"INVALID">>

\* The catalog record generateManifest pushes for the file at this path
\* under the assets directory, None when the file yields no record (it is
\* not an image directly inside the SVG subfolder of a category).
CatalogRecordOf(path) ==
    LET segs == SegmentsOf(path, "/")
    IN  IF Len(segs) = 3 /\ segs[2] = <<"S", "V", "G">> /\ HasImageSuffix(segs[3])
        THEN Some(IconRecord(None, segs[1], EmptyMetadata, segs[3]))
        ELSE None

\* A relativePath without its leading "assets" segment.
WithoutAssetsSegment(path) ==
    IF StartsWith(path, <<"a", "s", "s", "e", "t", "s", "/">>)
    THEN SubSeq(path, 8, Len(path))
    ELSE <<"INVALID">>

\* s with every backslash written as a slash.
SlashesOnly(s) == [i \in 1..Len(s) |-> IF s[i] = "\\" THEN "/" ELSE s[i]]

\* C19: for every asset file that yields a catalog record, the object key
\* the uploader stores it under, after the key prefix, equals the
\* relativePath the manifest records for it.
C19_KeysMirrorRelativePath ==
    \A k \in 1..Len(inFlight) :
        CatalogRecordOf(inFlight[k].file) # None =>
            KeyAfterPrefix(inFlight[k].key)
                = Get(CatalogRecordOf(inFlight[k].file)).relativePath

\* C19, for the path under the assets directory: the object key after the
\* key prefix is the relativePath without its leading "assets" segment
\* (category, subfolder, file name), with every backslash written as a slash.
C19_KeysMirrorPathUnderAssets ==
    \A k \in 1..Len(inFlight) :
        CatalogRecordOf(inFlight[k].file) # None =>
            KeyAfterPrefix(inFlight[k].key)
                = SlashesOnly(WithoutAssetsSegment(
                      Get(CatalogRecordOf(inFlight[k].file)).relativePath))

\* With the prefix "k", c/SVG/p.svg is in flight under the key
\* k/c/SVG/p.svg while the manifest records assets/c/SVG/p.svg for it.
C19_Witness ==
    /\ upc = "uploading"
    /\ keyPrefix = Some(<<"k">>)
    /\ \E k \in 1..Len(inFlight) :
          /\ inFlight[k].key =
                <<"k", "/", "c", "/", "S", "V", "G", "/", "p", ".", "s", "v", "g">>
          /\ CatalogRecordOf(inFlight[k].file) # None
          /\ Get(CatalogRecordOf(inFlight[k].file)).relativePath =
                <<"a", "s", "s", "e", "t", "s", "/", "c", "/", "S", "V", "G", "/",
                  "p", ".", "s", "v", "g">>

\* The number of uploads of the batch in flight that have not settled.
Unsettled ==
    Cardinality({k \in 1..Len(inFlight) : inFlight[k].phase \notin {"ok", "failed"}})

\* C20: main splits the discovered files, in order, into consecutive
\* batches of BATCH_SIZE files (the last one may be smaller, none is empty,
\* concatenated they are the file list); the uploads in flight are those of
\* one batch, so never more than BATCH_SIZE; and the next batch starts only
\* when every upload of the batch has settled.
C20_BatchesInTurn ==
    /\ [](batchIdx >= 1 =>
             /\ Flatten(batches) = files
             /\ \A b \in 1..Len(batches) :
                   /\ Len(batches[b]) >= 1
                   /\ Len(batches[b]) <= BATCH_SIZE
                   /\ b < Len(batches) => Len(batches[b]) = BATCH_SIZE
             /\ batchIdx <= Len(batches)
             /\ Len(inFlight) = Len(batches[batchIdx])
             /\ \A k \in 1..Len(inFlight) : inFlight[k].file = batches[batchIdx][k]
             /\ Unsettled <= BATCH_SIZE)
    /\ [][ (batchIdx >= 1 /\ batchIdx' # batchIdx) =>
               /\ Unsettled = 0
               /\ batchIdx' = batchIdx + 1
               /\ batches' = batches ]_vars

\* The third batch of five files is in flight: two full batches have
\* settled and been counted, and the last batch holds the one file left.
C20_Witness ==
    /\ upc = "uploading"
    /\ Len(files) = 5
    /\ Len(batches) = 3
    /\ batchIdx = 3
    /\ Len(inFlight) = 1
    /\ totalSuccess + totalFailed = 4

\* C21: in the gallery a card is disabled for as long as an insertion made
\* for it is in flight, whatever other cards are clicked and whichever earlier
\* insertions complete meanwhile; and when no insertion is in flight
\* activeIconId is null.
C21_CardDisabledWhileInserting ==
    /\ \A i \in 1..Len(insertions) : InFlight(i) => Disabled(insertions[i].card)
    /\ (\A i \in 1..Len(insertions) : ~InFlight(i)) => activeIconId = None

====
